---- MODULE Spec2Model ----
(***************************************************************************)
(* Media support of the deck library (anki/media.py): the media table, the *)
(* media directory, the reference extractor and the three deck-level       *)
(* operations copyToMedia, rebuildMediaDir and downloadMissing.            *)
(*                                                                         *)
(* Text and filenames are sequences of one-character strings, so that the  *)
(* two regular expressions are matched character by character.             *)
(***************************************************************************)
EXTENDS Integers, Sequences, FiniteSets, TLC

VARIABLES
    cards,        \* rows of the cards table: <<question, answer>>
    media,        \* rows of the media table, in row order
    mediaDeleted, \* rows of the mediaDeleted table, in row order
    mdir,         \* entries of the media directory, in os.listdir order
    cwd,          \* the process's working directory: "media" or "other"
    cwdFiles,     \* names of the files written into the other working directory
    mediaURL,     \* deck variable "mediaURL": <<>> when unset
    modified,     \* set by deck.flushMod()
    nextId,       \* source of genID()
    clock,        \* time.time(), advanced by every operation
    last,         \* the operation that returned last and what it returned
    prev,         \* the operation before it
    txt,          \* text handed to the string routines
    out,          \* stripMedia's result
    files,        \* mediaFiles' result
    tpc,          \* position of the string-routine run
    up            \* a run of uniquePath, turn by turn, and its earlier results

vars == <<cards, media, mediaDeleted, mdir, cwd, cwdFiles, mediaURL, modified,
          nextId, clock, last, prev, txt, out, files, tpc, up>>

deckVars == <<cards, media, mediaDeleted, mdir, cwd, cwdFiles, mediaURL,
              modified, nextId, clock, last, prev>>

textVars == <<txt, out, files, tpc>>

pathVars == <<up>>

----------------------------------------------------------------------------
(* Bounds *)

\* operations per behaviour (the clock stops there)
MaxOps == 2
\* fragments per input text of the string routines
MaxFrags == 3
\* calls of uniquePath per behaviour
MaxAllocs == 2

----------------------------------------------------------------------------
(* Sequence helpers *)

Range(s) == {s[i] : i \in DOMAIN s}

Min(S) == CHOOSE x \in S : \A y \in S : x <= y

Max(S) == CHOOSE x \in S : \A y \in S : x >= y

RECURSIVE Flatten(_)
Flatten(ss) == IF ss = <<>> THEN <<>> ELSE Head(ss) \o Flatten(Tail(ss))

\* the sequences that list every element of the finite set S exactly once
Perms(S) ==
    {p \in [1..Cardinality(S) -> S] : \A x \in S : \E i \in DOMAIN p : p[i] = x}

----------------------------------------------------------------------------
(* String manipulation: regexps, mediaFiles, stripMedia *)

UpperToLower ==
    ("S" :> "s") @@ ("O" :> "o") @@ ("U" :> "u") @@ ("N" :> "n") @@
    ("D" :> "d") @@ ("I" :> "i") @@ ("M" :> "m") @@ ("G" :> "g") @@
    ("R" :> "r") @@ ("C" :> "c")

\* (?i): letters compare without case
Lower(c) == IF c \in DOMAIN UpperToLower THEN UpperToLower[c] ELSE c

\* the literal lit (in lower case) matches s at position i
MatchLit(s, i, lit) ==
    /\ i >= 1
    /\ i + Len(lit) - 1 <= Len(s)
    /\ \A k \in 1..Len(lit) : Lower(s[i + k - 1]) = lit[k]

\* least index j >= i with s[j] = c, 0 when there is none
FirstIndexFrom(s, i, c) ==
    LET J == {j \in i..Len(s) : s[j] = c}
    IN  IF J = {} THEN 0 ELSE Min(J)

SoundLit == <<"[", "s", "o", "u", "n", "d", ":">>
ImgLit == <<"<", "i", "m", "g">>
SrcLit == <<"s", "r", "c", "=">>

IsQuote(c) == c \in {"\"", "'"}

\* regexps[0] = (?i)(\[sound:([^]]+)\]) tried at position i:
\* [^]]+ runs up to the first "]" and must not be empty.
\* Result: [end |-> index of the closing "]", 0 if no match, name |-> group 2]
SoundMatch(s, i) ==
    IF ~MatchLit(s, i, SoundLit) THEN [end |-> 0, name |-> <<>>]
    ELSE LET q == FirstIndexFrom(s, i + 7, "]")
         IN  IF q >= i + 8
             THEN [end |-> q, name |-> SubSeq(s, i + 7, q - 1)]
             ELSE [end |-> 0, name |-> <<>>]

\* the part of regexps[1] after "src=", tried at r0 with the closing ">" at p:
\* ["']? takes a quote when there is one, ([^"'>]+) takes the longest run
\* without quotes, and what is left before ">" must fit ["']?[^>]?
\* Result: [ok, name]
ImgTail(s, r0, p) ==
    LET r1 == IF r0 <= p - 1 /\ IsQuote(s[r0]) THEN r0 + 1 ELSE r0
        Stops == {j \in r1..(p - 1) : IsQuote(s[j])}
        e == IF Stops = {} THEN p - 1 ELSE Min(Stops) - 1
    IN  IF e >= r1 /\ (p - 1) - e <= 2
        THEN [ok |-> TRUE, name |-> SubSeq(s, r1, e)]
        ELSE [ok |-> FALSE, name |-> <<>>]

\* regexps[1] = (?i)(<img[^>]+src=["']?([^"'>]+)["']?[^>]?>) tried at i:
\* nothing in the pattern consumes ">", so the match ends at the first ">"
\* after "<img"; the greedy [^>]+ gives up characters one at a time, so the
\* rightmost "src=" for which the tail matches is the one taken.
ImgMatch(s, i) ==
    IF ~MatchLit(s, i, ImgLit) THEN [end |-> 0, name |-> <<>>]
    ELSE LET p == FirstIndexFrom(s, i + 4, ">")
             K == {k \in (i + 5)..(p - 4) :
                     MatchLit(s, k, SrcLit) /\ ImgTail(s, k + 4, p).ok}
         IN  IF p = 0 \/ K = {} THEN [end |-> 0, name |-> <<>>]
             ELSE [end |-> p, name |-> ImgTail(s, Max(K) + 4, p).name]

regexps == <<"sound", "img">>

RegMatch(reg, s, i) == IF reg = "sound" THEN SoundMatch(s, i) ELSE ImgMatch(s, i)

\* re.findall(reg, s): group 2 of each non-overlapping match, left to right
RECURSIVE FindAll(_, _, _)
FindAll(reg, s, i) ==
    IF i > Len(s) THEN <<>>
    ELSE LET m == RegMatch(reg, s, i)
         IN  IF m.end > 0 THEN <<m.name>> \o FindAll(reg, s, m.end + 1)
             ELSE FindAll(reg, s, i + 1)

\* re.sub(reg, "", s): s without the non-overlapping matches
RECURSIVE SubEmpty(_, _, _)
SubEmpty(reg, s, i) ==
    IF i > Len(s) THEN <<>>
    ELSE LET m == RegMatch(reg, s, i)
         IN  IF m.end > 0 THEN SubEmpty(reg, s, m.end + 1)
             ELSE <<s[i]>> \o SubEmpty(reg, s, i + 1)

\* variant: the image pattern is tried before the sound pattern
mediaFilesImgFirst(string) ==
    FindAll(regexps[2], string, 1) \o FindAll(regexps[1], string, 1)

mediaFiles(string) ==
    FindAll(regexps[1], string, 1) \o FindAll(regexps[2], string, 1)

stripMedia(t) ==
    SubEmpty(regexps[2], SubEmpty(regexps[1], t, 1), 1)

----------------------------------------------------------------------------
(* Files, digests and the media directory *)

\* anki.utils.checksum: the md5 digest of a byte string, never empty
Digest == ("x1" :> "md5-x1") @@ ("x2" :> "md5-x2")

checksum(data) == Digest[data]

\* names that exist in every directory: the directory itself, "." and ".."
DotNames == {<<>>, <<".">>, <<".", ".">>}

DirNames(dir) == {dir[i].name : i \in DOMAIN dir}

DirEntry(dir, name) == dir[CHOOSE i \in DOMAIN dir : dir[i].name = name]

\* os.path.exists(os.path.join(dir, name))
Exists(dir, name) == name \in DotNames \/ name \in DirNames(dir)

\* os.path.isfile(os.path.join(dir, name))
IsFile(dir, name) == name \in DirNames(dir) /\ DirEntry(dir, name).isfile

\* unicode(checksum(open(os.path.join(mdir, file), "rb").read())) inside
\* try/except: "" when the open or the read raises (absent, or a directory)
SumOrEmpty(dir, name) ==
    IF IsFile(dir, name) THEN checksum(DirEntry(dir, name).data) ELSE ""

\* a call to one of the deck's collaborators, with the number it was given
Call(ev, n) == [ev |-> ev, n |-> n]

\* os.path.basename
Basename(p) ==
    LET J == {j \in DOMAIN p : p[j] = "/"}
    IN  IF J = {} THEN p ELSE SubSeq(p, Max(J) + 1, Len(p))

\* deck.mediaDir(create=True) returns the path of the media directory; the
\* working directory of the process after the call, given the one before it
mediaDir(w) == w

----------------------------------------------------------------------------
(* uniquePath *)

Dangerous == {"[", "]", "<", ">", ":", "/", "\\"}

\* re.sub(r"[][<>:/\\]", "", base)
Sanitize(base) == SelectSeq(base, LAMBDA c : c \notin Dangerous)

\* os.path.splitext: the extension starts at the last dot, unless only dots
\* come before it
SplitExt(base) ==
    LET Dots == {j \in DOMAIN base : base[j] = "."}
        d == IF Dots = {} THEN 0 ELSE Max(Dots)
    IN  IF d > 0 /\ \E j \in 1..(d - 1) : base[j] # "."
        THEN [root |-> SubSeq(base, 1, d - 1), ext |-> SubSeq(base, d, Len(base))]
        ELSE [root |-> base, ext |-> <<>>]

DigitVal ==
    ("0" :> 0) @@ ("1" :> 1) @@ ("2" :> 2) @@ ("3" :> 3) @@ ("4" :> 4) @@
    ("5" :> 5) @@ ("6" :> 6) @@ ("7" :> 7) @@ ("8" :> 8) @@ ("9" :> 9)

DigitChar == <<"0", "1", "2", "3", "4", "5", "6", "7", "8", "9">>

IsDigit(c) == c \in DOMAIN DigitVal

\* int(match.group(1))
RECURSIVE IntOf(_)
IntOf(ds) ==
    IF ds = <<>> THEN 0
    ELSE 10 * IntOf(SubSeq(ds, 1, Len(ds) - 1)) + DigitVal[ds[Len(ds)]]

\* "%d" % n, n >= 0
RECURSIVE DigitsOf(_)
DigitsOf(n) ==
    IF n < 10 THEN <<DigitChar[n + 1]>>
    ELSE DigitsOf(n \div 10) \o <<DigitChar[(n % 10) + 1]>>

\* re.search(" \((\d+)\)$", root): the index of the space that starts the
\* match, 0 when the root does not end in " (digits)"
CounterStart(root) ==
    LET n == Len(root)
        NonDigits == {j \in 1..(n - 1) : ~IsDigit(root[j])}
        o == IF NonDigits = {} THEN 0 ELSE Max(NonDigits)
    IN  IF /\ n >= 4
           /\ root[n] = ")"
           /\ o >= 2
           /\ o <= n - 2
           /\ root[o] = "("
           /\ root[o - 1] = " "
        THEN o - 1 ELSE 0

\* variant: the counter is never recognised, " (1)" is appended every time
NextRootAppends(root) == root \o <<" ", "(", "1", ")">>

\* variant: the counter goes up by two
NextRootByTwo(root) ==
    LET k == CounterStart(root)
    IN  IF k = 0 THEN root \o <<" ", "(", "1", ")">>
        ELSE SubSeq(root, 1, k - 1) \o <<" ", "(">>
             \o DigitsOf(IntOf(SubSeq(root, k + 2, Len(root) - 1)) + 2)
             \o <<")">>

\* one turn of the loop body after the path was found to exist
NextRoot(root) ==
    LET k == CounterStart(root)
    IN  IF k = 0 THEN root \o <<" ", "(", "1", ")">>
        ELSE SubSeq(root, 1, k - 1) \o <<" ", "(">>
             \o DigitsOf(IntOf(SubSeq(root, k + 2, Len(root) - 1)) + 1)
             \o <<")">>

RECURSIVE UniqueLoop(_, _, _)
UniqueLoop(dir, root, ext) ==
    IF ~Exists(dir, root \o ext) THEN root \o ext
    ELSE UniqueLoop(dir, NextRoot(root), ext)

\* the name of the returned path inside dir
uniquePath(dir, base) ==
    LET sp == SplitExt(Sanitize(base))
    IN  UniqueLoop(dir, sp.root, sp.ext)

----------------------------------------------------------------------------
(* copyToMedia *)

\* variant: the lookup by digest finds nothing
FilenameByHashNone(m, cs) == <<>>

\* deck.s.scalar("select filename from media where originalPath = :cs"):
\* the first row's filename, <<>> (None) when no row has that digest
FilenameByHash(m, cs) ==
    LET I == {i \in DOMAIN m : m[i].originalPath = cs}
    IN  IF I = {} THEN <<>> ELSE m[Min(I)].filename

\* shutil.copy2(path, newpath)
CopyInto(dir, name, data) ==
    IF name \in DirNames(dir)
    THEN [i \in DOMAIN dir |->
            IF dir[i].name = name THEN [dir[i] EXCEPT !.data = data] ELSE dir[i]]
    ELSE Append(dir, [name |-> name, isfile |-> TRUE, data |-> data])

\* Result: [mdir, ret] with ret the returned filename
copyToMedia(m, dir, src) ==
    LET found == FilenameByHash(m, checksum(src.data))
    IN  IF found # <<>>
        THEN [mdir |-> dir, ret |-> Basename(found)]
        ELSE LET newpath == uniquePath(dir, Basename(src.path))
             IN  [mdir |-> CopyInto(dir, newpath, src.data),
                  ret |-> Basename(newpath)]

----------------------------------------------------------------------------
(* DB routines: updateMediaCount, removeUnusedMedia *)

HasRow(m, file) == \E i \in DOMAIN m : m[i].filename = file

\* Result: [media, nextId]
updateMediaCount(m, dir, file, count, nid, t) ==
    IF HasRow(m, file)
    THEN [media |-> [i \in DOMAIN m |->
                       IF m[i].filename = file
                       THEN [m[i] EXCEPT !.size = @ + count, !.created = t]
                       ELSE m[i]],
          nextId |-> nid]
    ELSE IF count > 0
    THEN [media |-> Append(m, [id |-> nid, filename |-> file, size |-> count,
                               created |-> t,
                               originalPath |-> SumOrEmpty(dir, file),
                               description |-> ""]),
          nextId |-> nid + 1]
    ELSE [media |-> m, nextId |-> nid]

\* variant: the rows are deleted without a mediaDeleted row
removeUnusedMediaNoTomb(m, tombs, t) ==
    [mediaDeleted |-> tombs, media |-> SelectSeq(m, LAMBDA r : r.size # 0)]

\* Result: [media, mediaDeleted]
removeUnusedMedia(m, tombs, t) ==
    LET zero == SelectSeq(m, LAMBDA r : r.size = 0)
    IN  [mediaDeleted |->
            tombs \o [i \in DOMAIN zero |->
                        [mediaId |-> zero[i].id, deletedTime |-> t]],
         media |-> SelectSeq(m, LAMBDA r : r.size # 0)]

----------------------------------------------------------------------------
(* rebuildMediaDir *)

\* variant: the counts of the earlier run are kept
ResetCountsKeep(m) == m

\* "update media set size = 0"
ResetCounts(m) == [i \in DOMAIN m |-> [m[i] EXCEPT !.size = 0]]

\* the loop body "if f in refs: refs[f] += 1 else: refs[f] = 1" over fs
RECURSIVE CountRefs(_, _)
CountRefs(fs, refs) ==
    IF fs = <<>> THEN refs
    ELSE LET f == Head(fs)
         IN  CountRefs(Tail(fs),
                       IF f \in DOMAIN refs THEN [refs EXCEPT ![f] = @ + 1]
                       ELSE refs @@ (f :> 1))

\* the filenames found in the question and the answer of every card, in order
CardFiles(cs) ==
    Flatten([i \in DOMAIN cs |-> mediaFiles(cs[i][1]) \o mediaFiles(cs[i][2])])

ScanRefs(cs) == CountRefs(CardFiles(cs), <<>>)

\* "for (file, count) in refs.items(): updateMediaCount(deck, file, count)",
\* items being the order in which the dictionary yields its keys
RECURSIVE UpdateCounts(_, _, _, _, _, _)
UpdateCounts(m, dir, refs, items, nid, t) ==
    IF items = <<>> THEN [media |-> m, nextId |-> nid]
    ELSE LET u == updateMediaCount(m, dir, Head(items), refs[Head(items)], nid, t)
         IN  UpdateCounts(u.media, dir, refs, Tail(items), u.nextId, t)

\* variant: every directory entry is looked at, plain file or not
FindUnusedAnyEntry(dir, refs) ==
    LET un == SelectSeq(dir, LAMBDA e : e.name \notin DOMAIN refs)
    IN  [i \in DOMAIN un |-> un[i].name]

\* the names of the plain files of the directory that no card refers to
FindUnused(dir, refs) ==
    LET un == SelectSeq(dir, LAMBDA e : e.isfile /\ e.name \notin DOMAIN refs)
    IN  [i \in DOMAIN un |-> un[i].name]

\* variant: the unlink removes nothing
UnlinkNothing(dir, unused) == dir

\* os.unlink of every name in unused
Unlink(dir, unused) == SelectSeq(dir, LAMBDA e : e.name \notin Range(unused))

\* variant: the files are unlinked whatever the flag
PurgeFilesAlways(dir, unused, delete) == Unlink(dir, unused)

\* "if delete: ... for f in unused: os.unlink(path)"
PurgeFiles(dir, unused, delete) == IF delete THEN Unlink(dir, unused) ELSE dir

\* variant: the zero rows are removed whatever the flag
PurgeRowsAlways(m, tombs, t, delete) == removeUnusedMedia(m, tombs, t)

\* "if delete: removeUnusedMedia(deck)"
PurgeRows(m, tombs, t, delete) ==
    IF delete THEN removeUnusedMedia(m, tombs, t)
    ELSE [mediaDeleted |-> tombs, media |-> m]

\* the md5 pass opens every path that exists: a path that exists and is not
\* a plain file makes open() raise, outside any try
RefreshRaises(m, dir) ==
    \E i \in DOMAIN m : Exists(dir, m[i].filename) /\ ~IsFile(dir, m[i].filename)

\* variant: the sum of a row whose file is gone is left as it was
RefreshSumsPresentOnly(m, dir, t) ==
    [i \in DOMAIN m |->
        LET r == m[i]
        IN  IF ~Exists(dir, r.filename) THEN r
            ELSE LET sum == checksum(DirEntry(dir, r.filename).data)
                 IN  IF r.originalPath # sum
                     THEN [r EXCEPT !.originalPath = sum, !.created = t]
                     ELSE r]

\* variant: the batch update stamps every row
RefreshSumsTouchAll(m, dir, t) ==
    [i \in DOMAIN m |->
        LET r == m[i]
        IN  IF ~Exists(dir, r.filename)
            THEN [r EXCEPT !.originalPath = "", !.created = t]
            ELSE [r EXCEPT !.originalPath = checksum(DirEntry(dir, r.filename).data),
                           !.created = t]]

\* the md5 pass and its batch update
RefreshSums(m, dir, t) ==
    [i \in DOMAIN m |->
        LET r == m[i]
        IN  IF ~Exists(dir, r.filename)
            THEN IF r.originalPath # ""
                 THEN [r EXCEPT !.originalPath = "", !.created = t]
                 ELSE r
            ELSE LET sum == checksum(DirEntry(dir, r.filename).data)
                 IN  IF r.originalPath # sum
                     THEN [r EXCEPT !.originalPath = sum, !.created = t]
                     ELSE r]

\* "select filename from media where originalPath = ''"
NoHave(m) ==
    LET e == SelectSeq(m, LAMBDA r : r.originalPath = "")
    IN  [i \in DOMAIN e |-> e[i].filename]

\* refs: the dictionary built from the cards (ScanRefs); items: the order in
\* which refs.items() yields its keys.
\* Result: [media, mediaDeleted, mdir, nextId, modified, prepass, calls, ret];
\* prepass is the media table as the md5 pass found it; calls lists the
\* calls to deck.mediaDir, deck.flushMod and the progress methods, in order;
\* ret.kind is "raise" when the md5 pass raised, else "ok" with the returned
\* pair
rebuildMediaDir(refs, m, tombs, dir, nid, mod, t, delete, dirty, items) ==
    LET counted == UpdateCounts(ResetCounts(m), dir, refs, items, nid, t)
        unused == FindUnused(dir, refs)
        purged == PurgeRows(counted.media, tombs, t, delete)
        dir2 == PurgeFiles(dir, unused, delete)
    IN  IF RefreshRaises(purged.media, dir2)
        THEN [media |-> purged.media, mediaDeleted |-> purged.mediaDeleted,
              mdir |-> dir2, nextId |-> counted.nextId, modified |-> mod,
              prepass |-> purged.media,
              calls |-> <<Call("startProgress", 0), Call("mediaDir", 0)>>,
              ret |-> [kind |-> "raise", nohave |-> <<>>, unused |-> unused]]
        ELSE LET m2 == RefreshSums(purged.media, dir2, t)
             IN  [media |-> m2, mediaDeleted |-> purged.mediaDeleted,
                  mdir |-> dir2, nextId |-> counted.nextId,
                  modified |-> (mod \/ dirty),
                  prepass |-> purged.media,
                  calls |-> <<Call("startProgress", 0), Call("mediaDir", 0)>>
                            \o (IF dirty THEN <<Call("flushMod", 0)>> ELSE <<>>)
                            \o <<Call("finishProgress", 0)>>,
                  ret |-> [kind |-> "ok", nohave |-> NoHave(m2),
                           unused |-> unused]]

\* another process removes a file of the media directory
Vanish(dir, gone) == SelectSeq(dir, LAMBDA e : e.name # gone)

\* the unused files unlinked before the loop reaches f
UnlinkedBefore(unused, f) ==
    SubSeq(unused, 1, (CHOOSE i \in DOMAIN unused : unused[i] = f) - 1)

\* rebuildMediaDir while another process removes the file gone, either right
\* after os.listdir was read ("listed") or between os.path.exists and open
\* for that file ("checked"). os.unlink and open raise on a path that is
\* gone, and neither call is inside a try.
rebuildMediaDirRace(refs, m, tombs, dir, nid, mod, t, delete, dirty, items, gone, point) ==
    LET counted == UpdateCounts(ResetCounts(m), dir, refs, items, nid, t)
        unused == FindUnused(dir, refs)
        purged == PurgeRows(counted.media, tombs, t, delete)
        raised(d) ==
            [media |-> purged.media, mediaDeleted |-> purged.mediaDeleted,
             mdir |-> d, nextId |-> counted.nextId, modified |-> mod,
             prepass |-> purged.media,
             calls |-> <<Call("startProgress", 0), Call("mediaDir", 0)>>,
             ret |-> [kind |-> "raise", nohave |-> <<>>, unused |-> unused]]
    IN  IF point = "listed" /\ delete /\ gone \in Range(unused)
        THEN raised(Unlink(Vanish(dir, gone), UnlinkedBefore(unused, gone)))
        ELSE IF point = "checked"
        THEN raised(Vanish(PurgeFiles(dir, unused, delete), gone))
        ELSE LET dir2 == PurgeFiles(Vanish(dir, gone), unused, delete)
             IN  IF RefreshRaises(purged.media, dir2) THEN raised(dir2)
                 ELSE LET m2 == RefreshSums(purged.media, dir2, t)
                      IN  [media |-> m2, mediaDeleted |-> purged.mediaDeleted,
                           mdir |-> dir2, nextId |-> counted.nextId,
                           modified |-> (mod \/ dirty),
                           prepass |-> purged.media,
                           calls |-> <<Call("startProgress", 0),
                                       Call("mediaDir", 0)>>
                                     \o (IF dirty THEN <<Call("flushMod", 0)>>
                                         ELSE <<>>)
                                     \o <<Call("finishProgress", 0)>>,
                           ret |-> [kind |-> "ok", nohave |-> NoHave(m2),
                                    unused |-> unused]]

----------------------------------------------------------------------------
(* downloadMissing *)

\* open(f, "wb").write(url.read()): f is relative, so the file lands in the
\* working directory. Result: [mdir, cwdFiles]
WriteRelative(dir, cfiles, w, f, data) ==
    IF w = "media"
    THEN [mdir |-> CopyInto(dir, f, data), cwdFiles |-> cfiles]
    ELSE [mdir |-> dir, cwdFiles |-> cfiles \cup {f}]

\* deck.updateProgress at the end of a turn of the loop; the turn that
\* returns (False, rpath) does not get there
UpdateProgress(st) ==
    IF st.rpath # <<>> THEN st
    ELSE [st EXCEPT !.calls =
            Append(@, Call("updateProgress", st.grabbed + st.missing))]

\* variant: a failed fetch is counted as missing whatever the stored sum
DownloadRowIgnoreSum(f, sum, st, w, urlbase, served, data) ==
    UpdateProgress(
    LET st1 == [st EXCEPT !.seen = Append(@, f)]
    IN  IF Exists(st.mdir, f) THEN st1
        ELSE LET rpath == urlbase \o f
                 st2 == [st1 EXCEPT !.tried = Append(@, rpath)]
             IN  IF f \in served
                 THEN LET wr == WriteRelative(st.mdir, st.cwdFiles, w, f, data)
                      IN  [st2 EXCEPT !.mdir = wr.mdir,
                                      !.cwdFiles = wr.cwdFiles,
                                      !.grabbed = @ + 1]
                 ELSE [st2 EXCEPT !.missing = @ + 1])

\* variant: a failed fetch for a row without a sum is not counted
DownloadRowUncounted(f, sum, st, w, urlbase, served, data) ==
    UpdateProgress(
    LET st1 == [st EXCEPT !.seen = Append(@, f)]
    IN  IF Exists(st.mdir, f) THEN st1
        ELSE LET rpath == urlbase \o f
                 st2 == [st1 EXCEPT !.tried = Append(@, rpath)]
             IN  IF f \in served
                 THEN LET wr == WriteRelative(st.mdir, st.cwdFiles, w, f, data)
                      IN  [st2 EXCEPT !.mdir = wr.mdir,
                                      !.cwdFiles = wr.cwdFiles,
                                      !.grabbed = @ + 1]
                 ELSE IF sum # ""
                 THEN [st2 EXCEPT !.rpath = rpath]
                 ELSE st2)

\* one turn of the loop, for the row <<f, sum>>. served: the names urlopen
\* succeeds for. st: [mdir, cwdFiles, grabbed, missing, seen, tried, rpath,
\* calls];
\* st.rpath is set by the turn that returns (False, rpath)
DownloadRow(f, sum, st, w, urlbase, served, data) ==
    UpdateProgress(
    LET st1 == [st EXCEPT !.seen = Append(@, f)]
    IN  IF Exists(st.mdir, f) THEN st1
        ELSE LET rpath == urlbase \o f
                 st2 == [st1 EXCEPT !.tried = Append(@, rpath)]
             IN  IF f \in served
                 THEN LET wr == WriteRelative(st.mdir, st.cwdFiles, w, f, data)
                      IN  [st2 EXCEPT !.mdir = wr.mdir,
                                      !.cwdFiles = wr.cwdFiles,
                                      !.grabbed = @ + 1]
                 ELSE IF sum # ""
                 THEN [st2 EXCEPT !.rpath = rpath]
                 ELSE [st2 EXCEPT !.missing = @ + 1])

\* the loop over the rows fetched by "select filename, originalPath from
\* media", from row i on
RECURSIVE DownloadLoop(_, _, _, _, _, _, _)
DownloadLoop(rows, i, st, w, urlbase, served, data) ==
    IF st.rpath # <<>>
    THEN [mdir |-> st.mdir, cwdFiles |-> st.cwdFiles,
          calls |-> Append(st.calls, Call("finishProgress", 0)),
          ret |-> [kind |-> "fail", grabbed |-> st.grabbed,
                   missing |-> st.missing, rpath |-> st.rpath,
                   seen |-> st.seen, tried |-> st.tried]]
    ELSE IF i > Len(rows)
    THEN [mdir |-> st.mdir, cwdFiles |-> st.cwdFiles,
          calls |-> Append(st.calls, Call("finishProgress", 0)),
          ret |-> [kind |-> "ok", grabbed |-> st.grabbed, missing |-> st.missing,
                   rpath |-> <<>>, seen |-> st.seen, tried |-> st.tried]]
    ELSE DownloadLoop(rows, i + 1,
                      DownloadRow(rows[i].filename, rows[i].originalPath, st,
                                  w, urlbase, served, data),
                      w, urlbase, served, data)

\* variant: the progress is started before the deck variable is looked at
downloadMissingStartsFirst(m, dir, cfiles, w, urlbase, served, data) ==
    IF urlbase = <<>>
    THEN [mdir |-> dir, cwdFiles |-> cfiles,
          calls |-> <<Call("startProgress", 0)>>,
          ret |-> [kind |-> "none", grabbed |-> 0, missing |-> 0,
                   rpath |-> <<>>, seen |-> <<>>, tried |-> <<>>]]
    ELSE DownloadLoop(m, 1,
                      [mdir |-> dir, cwdFiles |-> cfiles, grabbed |-> 0,
                       missing |-> 0, seen |-> <<>>, tried |-> <<>>,
                       rpath |-> <<>>,
                       calls |-> <<Call("startProgress", 0), Call("mediaDir", 0)>>],
                      mediaDir(w), urlbase, served, data)

\* Result: [mdir, cwdFiles, calls, ret]; calls lists the calls to
\* deck.mediaDir(create=True) and to the progress methods, in order; ret.kind
\* is "none" (None), "fail" ((False, rpath)) or "ok" ((True, grabbed, missing))
downloadMissing(m, dir, cfiles, w, urlbase, served, data) ==
    IF urlbase = <<>>
    THEN [mdir |-> dir, cwdFiles |-> cfiles, calls |-> <<>>,
          ret |-> [kind |-> "none", grabbed |-> 0, missing |-> 0,
                   rpath |-> <<>>, seen |-> <<>>, tried |-> <<>>]]
    ELSE DownloadLoop(m, 1,
                      [mdir |-> dir, cwdFiles |-> cfiles, grabbed |-> 0,
                       missing |-> 0, seen |-> <<>>, tried |-> <<>>,
                       rpath |-> <<>>,
                       calls |-> <<Call("mediaDir", 0), Call("startProgress", 0)>>],
                      mediaDir(w), urlbase, served, data)

----------------------------------------------------------------------------
(* The decks, directories and files the operations are run on *)

fA == <<"a">>
fB == <<"b">>
fC == <<"c">>
fD == <<"d">>
fE == <<"e">>

Snd(name) == SoundLit \o name \o <<"]">>

Img(name) == ImgLit \o <<" ">> \o SrcLit \o <<"'">> \o name \o <<"'", ">">>

\* cards tables: none; a twice and b once; e (nowhere on disk) and a; d (a
\* subdirectory of the media directory)
CardSets ==
    { <<>>,
      << <<Snd(fA), Snd(fA) \o <<" ">> \o Img(fB)>> >>,
      << <<Snd(fE), <<"h", "i">>>>, <<Img(fA), <<>>>> >>,
      << <<Snd(fD), <<>>>> >> }

File(name, data) == [name |-> name, isfile |-> TRUE, data |-> data]

SubDir(name) == [name |-> name, isfile |-> FALSE, data |-> ""]

MediaDirs ==
    { <<>>,
      <<File(fA, "x1")>>,
      <<File(fA, "x1"), File(fB, "x2"), File(fC, "x1"), SubDir(fD)>> }

Row(id, file, size, sum) ==
    [id |-> id, filename |-> file, size |-> size, created |-> 0,
     originalPath |-> sum, description |-> ""]

\* media tables left by earlier runs: the counts and sums are those of the
\* cards and files of that time
MediaTables ==
    { <<>>,
      <<Row(1, fA, 3, "md5-x1"), Row(2, fC, 1, "md5-x1")>>,
      <<Row(1, fA, 0, ""), Row(2, fE, 1, "md5-x2"), Row(3, fB, 2, "md5-x1")>> }

\* files outside the media directory handed to copyToMedia
Sources ==
    { [path |-> <<"u", "/", "a">>, data |-> "x1"],
      [path |-> <<"v", "/", "n">>, data |-> "x1"],
      [path |-> <<"v", "/", "a">>, data |-> "x2"],
      [path |-> <<"u", "/", "[", "n", "]">>, data |-> "x2"] }

Contents == DOMAIN Digest

URLBase == <<"h", ":", "/">>

NoOp == [op |-> "none"]

Snapshot ==
    [media |-> media, mediaDeleted |-> mediaDeleted, mdir |-> mdir,
     cwdFiles |-> cwdFiles, modified |-> modified]

----------------------------------------------------------------------------
(* The deck-level state machine *)

TextIdle == /\ txt = <<>> /\ out = <<>> /\ files = <<>> /\ tpc = "idle"

\* no run of uniquePath on its own
PathIdle ==
    up = [pc |-> "idle", base |-> <<>>, root |-> <<>>, ext |-> <<>>,
          tried |-> <<>>, results |-> <<>>, created |-> <<>>]

Init ==
    /\ cards \in CardSets
    /\ media \in MediaTables
    /\ mediaDeleted = <<[mediaId |-> 0, deletedTime |-> 0]>>
    /\ mdir \in MediaDirs
    /\ cwd \in {"media", "other"}
    /\ cwdFiles = {}
    /\ mediaURL \in {<<>>, URLBase}
    /\ modified = FALSE
    /\ nextId = 1 + Max({0} \cup {media[i].id : i \in DOMAIN media})
    /\ clock = 1
    /\ last = NoOp
    /\ prev = NoOp
    /\ TextIdle
    /\ PathIdle

Rebuild(refs, delete, dirty, items) ==
    /\ clock <= MaxOps
    /\ LET r == rebuildMediaDir(refs, media, mediaDeleted, mdir, nextId,
                                modified, clock, delete, dirty, items)
       IN  /\ media' = r.media
           /\ mediaDeleted' = r.mediaDeleted
           /\ mdir' = r.mdir
           /\ nextId' = r.nextId
           /\ modified' = r.modified
           /\ last' = [op |-> "rebuild", delete |-> delete, dirty |-> dirty,
                       at |-> clock, before |-> Snapshot,
                       prepass |-> r.prepass, calls |-> r.calls,
                       ret |-> r.ret]
    /\ prev' = last
    /\ clock' = clock + 1
    /\ UNCHANGED <<cards, cwd, cwdFiles, mediaURL>>
    /\ UNCHANGED <<textVars, pathVars>>

\* variant: the copy is followed by updateMediaCount for the new name
CopyToMediaCounting(src) ==
    /\ clock <= MaxOps
    /\ LET r == copyToMedia(media, mdir, src)
           u == updateMediaCount(media, r.mdir, r.ret, 1, nextId, clock)
       IN  /\ mdir' = r.mdir
           /\ media' = u.media
           /\ nextId' = u.nextId
           /\ last' = [op |-> "copy", src |-> src, at |-> clock,
                       before |-> Snapshot, ret |-> r.ret]
    /\ prev' = last
    /\ clock' = clock + 1
    /\ UNCHANGED <<cards, mediaDeleted, cwd, cwdFiles, mediaURL, modified>>
    /\ UNCHANGED <<textVars, pathVars>>

CopyToMedia(src) ==
    /\ clock <= MaxOps
    /\ LET r == copyToMedia(media, mdir, src)
       IN  /\ mdir' = r.mdir
           /\ last' = [op |-> "copy", src |-> src, at |-> clock,
                       before |-> Snapshot, ret |-> r.ret]
    /\ prev' = last
    /\ clock' = clock + 1
    /\ UNCHANGED <<cards, media, mediaDeleted, cwd, cwdFiles, mediaURL,
                   modified, nextId>>
    /\ UNCHANGED <<textVars, pathVars>>

DownloadMissing(served, data) ==
    /\ clock <= MaxOps
    /\ LET r == downloadMissing(media, mdir, cwdFiles, cwd, mediaURL, served, data)
       IN  /\ mdir' = r.mdir
           /\ cwdFiles' = r.cwdFiles
           /\ last' = [op |-> "download", served |-> served, at |-> clock,
                       before |-> Snapshot, calls |-> r.calls, ret |-> r.ret]
    /\ prev' = last
    /\ clock' = clock + 1
    /\ UNCHANGED <<cards, media, mediaDeleted, cwd, mediaURL, modified, nextId>>
    /\ UNCHANGED <<textVars, pathVars>>

\* the rows whose file downloadMissing could find absent
Absent == {media[i].filename : i \in {j \in DOMAIN media : ~Exists(mdir, media[j].filename)}}

Next ==
    \/ \E refs \in {ScanRefs(cards)}, delete \in BOOLEAN, dirty \in BOOLEAN :
         \E items \in Perms(DOMAIN refs) : Rebuild(refs, delete, dirty, items)
    \/ \E src \in Sources : CopyToMedia(src)
    \/ \E served \in SUBSET Absent, data \in Contents : DownloadMissing(served, data)

Spec == Init /\ [][Next]_vars

----------------------------------------------------------------------------
(* rebuildMediaDir with another process removing a file *)

\* the files another process can remove so that the md5 pass meets them:
\* plain files of the directory with a row in the media table that the run
\* neither purges nor unlinks before the pass (for "checked")
Catalogued(m, dir) ==
    {f \in DirNames(dir) : IsFile(dir, f) /\ \E i \in DOMAIN m : m[i].filename = f}

RebuildRace(refs, delete, dirty, items, gone, point) ==
    /\ clock <= MaxOps
    /\ gone \in Catalogued(media, mdir)
    /\ LET alone == rebuildMediaDir(refs, media, mediaDeleted, mdir, nextId,
                                    modified, clock, delete, dirty, items)
       IN  /\ point = "checked" =>
                 /\ alone.ret.kind = "ok"
                 /\ gone \in Catalogued(alone.prepass, alone.mdir)
           /\ LET r == rebuildMediaDirRace(refs, media, mediaDeleted, mdir,
                                           nextId, modified, clock, delete,
                                           dirty, items, gone, point)
              IN  /\ media' = r.media
                  /\ mediaDeleted' = r.mediaDeleted
                  /\ mdir' = r.mdir
                  /\ nextId' = r.nextId
                  /\ modified' = r.modified
                  /\ last' = [op |-> "race", delete |-> delete,
                              dirty |-> dirty, at |-> clock,
                              before |-> Snapshot, gone |-> gone,
                              point |-> point, alone |-> alone.ret.kind,
                              prepass |-> r.prepass, calls |-> r.calls,
                              ret |-> r.ret]
    /\ prev' = last
    /\ clock' = clock + 1
    /\ UNCHANGED <<cards, cwd, cwdFiles, mediaURL>>
    /\ UNCHANGED <<textVars, pathVars>>

RaceNext ==
    \/ \E refs \in {ScanRefs(cards)}, delete \in BOOLEAN, dirty \in BOOLEAN :
         \E items \in Perms(DOMAIN refs) :
           \E gone \in DirNames(mdir), point \in {"listed", "checked"} :
             RebuildRace(refs, delete, dirty, items, gone, point)
    \/ \E src \in Sources : CopyToMedia(src)

RaceSpec == Init /\ [][RaceNext]_vars

----------------------------------------------------------------------------
(* The string routines on their own *)

Fragments ==
    { <<"[", "s", "o">>, <<"u", "n", "d", ":">>,
      <<"u", "n", "d", ":", "y", "]">>,
      <<"[", "S", "o", "u", "n", "d", ":", "x", "]">>,
      <<"x">>, <<"]">>, <<"<", "i", "m">>,
      <<"g", " ", "s", "r", "c", "=", "y", ">">>,
      <<"<", "I", "M", "G", " ", "s", "r", "c", "=", "'", "x", ".", "z", "'", ">">>,
      <<"g", " ", "s", "r", "c", "=">>, <<">">>, <<"'">> }

Texts == {Flatten(fs) : fs \in UNION {[1..n -> Fragments] : n \in 0..MaxFrags}}

TextInit ==
    /\ cards = <<>>
    /\ media = <<>>
    /\ mediaDeleted = <<>>
    /\ mdir = <<>>
    /\ cwd = "media"
    /\ cwdFiles = {}
    /\ mediaURL = <<>>
    /\ modified = FALSE
    /\ nextId = 1
    /\ clock = 1
    /\ last = NoOp
    /\ prev = NoOp
    /\ txt \in Texts
    /\ out = <<>>
    /\ files = <<>>
    /\ tpc = "text"
    /\ PathIdle

StripMedia ==
    /\ tpc = "text"
    /\ out' = stripMedia(txt)
    /\ tpc' = "stripped"
    /\ UNCHANGED <<txt, files>>
    /\ UNCHANGED <<deckVars, pathVars>>

MediaFilesOfText ==
    /\ tpc = "text"
    /\ files' = mediaFiles(txt)
    /\ tpc' = "found"
    /\ UNCHANGED <<txt, out>>
    /\ UNCHANGED <<deckVars, pathVars>>

MediaFilesOfStripped ==
    /\ tpc = "stripped"
    /\ files' = mediaFiles(out)
    /\ tpc' = "refound"
    /\ UNCHANGED <<txt, out>>
    /\ UNCHANGED <<deckVars, pathVars>>

TextNext == StripMedia \/ MediaFilesOfText \/ MediaFilesOfStripped

TextSpec == TextInit /\ [][TextNext]_vars

----------------------------------------------------------------------------
(* uniquePath on its own, one turn of its loop at a time *)

Counted(root, n) == root \o <<" ", "(">> \o DigitsOf(n) \o <<")">>

\* the names the directories are made of, in listing order
PathPool ==
    << <<"a">>, Counted(<<"a">>, 1), Counted(<<"a">>, 3),
       <<"a", ".", "x">>, Counted(<<"a">>, 2) \o <<".", "x">>,
       Counted(<<>>, 1) >>

PathDirs ==
    { LET At(k) == CHOOSE i \in S : Cardinality({j \in S : j < i}) = k - 1
      IN  [k \in 1..Cardinality(S) |-> File(PathPool[At(k)], "x1")]
      : S \in SUBSET DOMAIN PathPool }

\* base names handed to uniquePath
PathBases ==
    { <<"a">>, <<"a", ".", "x">>, Counted(<<"a">>, 1), <<"[", ":", "]">>,
      <<"<", "a", ">">> }

PathInit ==
    /\ cards = <<>>
    /\ media = <<>>
    /\ mediaDeleted = <<>>
    /\ mdir \in PathDirs
    /\ cwd = "media"
    /\ cwdFiles = {}
    /\ mediaURL = <<>>
    /\ modified = FALSE
    /\ nextId = 1
    /\ clock = 1
    /\ last = NoOp
    /\ prev = NoOp
    /\ TextIdle
    /\ \E base \in PathBases : up = [pc |-> "idle", base |-> base, root |-> <<>>,
                                     ext |-> <<>>, tried |-> <<>>,
                                     results |-> <<>>, created |-> <<>>]

\* the call: the base is cleaned and split, the loop is entered
UniquePathBegin ==
    /\ up.pc = "idle"
    /\ Len(up.results) < MaxAllocs
    /\ LET sp == SplitExt(Sanitize(up.base))
       IN  up' = [up EXCEPT !.pc = "loop", !.root = sp.root, !.ext = sp.ext,
                            !.tried = <<>>]
    /\ UNCHANGED <<deckVars, textVars>>

\* one turn of "while True": the path is tested; the loop is left when it
\* does not exist, else the root gets its next counter
UniquePathTurn ==
    /\ up.pc = "loop"
    /\ LET tried == Append(up.tried, up.root)
       IN  IF ~Exists(mdir, up.root \o up.ext)
           THEN up' = [up EXCEPT !.pc = "idle", !.tried = tried,
                          !.results = Append(@, [name |-> up.root \o up.ext,
                                                 root |-> up.root,
                                                 ext |-> up.ext,
                                                 tried |-> tried,
                                                 dir |-> DirNames(mdir)]),
                          !.created = Append(@, FALSE)]
           ELSE up' = [up EXCEPT !.root = NextRoot(up.root), !.tried = tried]
    /\ UNCHANGED <<deckVars, textVars>>

\* the caller creates the file at the path it was given (shutil.copy2)
CreateReturnedPath ==
    /\ up.pc = "idle"
    /\ up.results # <<>>
    /\ ~up.created[Len(up.created)]
    /\ mdir' = CopyInto(mdir, up.results[Len(up.results)].name, "x1")
    /\ up' = [up EXCEPT !.created[Len(up.created)] = TRUE]
    /\ UNCHANGED <<cards, media, mediaDeleted, cwd, cwdFiles, mediaURL,
                   modified, nextId, clock, last, prev>>
    /\ UNCHANGED textVars

PathNext == UniquePathBegin \/ UniquePathTurn \/ CreateReturnedPath

PathSpec == PathInit /\ [][PathNext]_vars

----------------------------------------------------------------------------
(* Properties of rebuildMediaDir *)

\* the filenames the cards refer to
Referenced == Range(CardFiles(cards))

\* how often the extractor finds f in the question and answer texts
Occurrences(f) ==
    LET cf == CardFiles(cards)
    IN  Cardinality({i \in DOMAIN cf : cf[i] = f})

MediaIds(m) == {m[i].id : i \in DOMAIN m}

\* the plain files of dir that none of the names in refd refers to
UnreferencedFiles(dir, refd) ==
    {dir[i].name : i \in {j \in DOMAIN dir : dir[j].isfile /\ dir[j].name \notin refd}}

RebuildReturned(o) == o.op = "rebuild" /\ o.ret.kind = "ok"

\* C1: after rebuild(delete=False) every filename found n >= 1 times in the
\* cards has a media row with size = n, and every row whose filename is found
\* in no card has size = 0, whatever the sizes were before.
CountsAreOccurrences ==
    (last.op = "rebuild" /\ ~last.delete) =>
        /\ \A f \in Referenced : \E i \in DOMAIN media : media[i].filename = f
        /\ \A i \in DOMAIN media : media[i].size = Occurrences(media[i].filename)

CountsAreOccurrencesWitness ==
    /\ last.op = "rebuild" /\ ~last.delete
    /\ \E i \in DOMAIN last.before.media :
         /\ last.before.media[i].filename = fA
         /\ last.before.media[i].size = 3
    /\ \E i \in DOMAIN media : media[i].filename = fA /\ media[i].size = 2
    /\ \E i \in DOMAIN media : media[i].filename = fC /\ media[i].size = 0
    /\ \E i \in DOMAIN media :
         media[i].size = 1 /\ media[i].id \notin MediaIds(last.before.media)

\* C2: the unused list returned by rebuild names exactly the plain files of
\* the media directory, as listed before any deletion, that no card refers
\* to; it names no subdirectory and no referenced file, and no file twice.
UnusedAreUnreferencedFiles ==
    RebuildReturned(last) =>
        /\ Range(last.ret.unused) = UnreferencedFiles(last.before.mdir, Referenced)
        /\ Cardinality(Range(last.ret.unused)) = Len(last.ret.unused)

UnusedAreUnreferencedFilesWitness ==
    /\ RebuildReturned(last)
    /\ last.ret.unused = <<fC>>
    /\ SubDir(fD) \in Range(last.before.mdir)
    /\ File(fA, "x1") \in Range(last.before.mdir)
    /\ fA \in Referenced

TwoRebuilds ==
    /\ RebuildReturned(prev)
    /\ RebuildReturned(last)
    /\ last.delete = prev.delete
    /\ last.dirty = prev.dirty

\* C3 as stated: two rebuilds in a row with the same flags return the same
\* (nohave, unused) pair, for either value of delete.
RebuildTwiceSameResult ==
    TwoRebuilds =>
        /\ last.ret.nohave = prev.ret.nohave
        /\ last.ret.unused = prev.ret.unused

\* C3 amended: two rebuilds in a row with the same flags return the same
\* nohave list; they return the same unused list when delete is False, and
\* with delete=True the second unused list is empty, the first run having
\* unlinked what it reported.
RebuildTwiceSameMissing ==
    TwoRebuilds =>
        /\ last.ret.nohave = prev.ret.nohave
        /\ ~last.delete => last.ret.unused = prev.ret.unused
        /\ last.delete => last.ret.unused = <<>>

RebuildTwiceSameMissingWitness ==
    /\ TwoRebuilds
    /\ ~last.delete
    /\ last.ret.unused # <<>>
    /\ last.ret.nohave # <<>>

\* C7: after rebuild returns, a media row has originalPath = "" exactly when
\* no file of its name is in the media directory, and nohave lists exactly
\* the filenames of the rows with originalPath = "".
EmptySumIffNoFile ==
    RebuildReturned(last) =>
        /\ \A i \in DOMAIN media :
             (media[i].originalPath = "") <=> (media[i].filename \notin DirNames(mdir))
        /\ Range(last.ret.nohave) =
             {media[i].filename : i \in {j \in DOMAIN media : media[j].originalPath = ""}}
        /\ Cardinality(Range(last.ret.nohave)) = Len(last.ret.nohave)

EmptySumIffNoFileWitness ==
    /\ RebuildReturned(last)
    /\ \E i \in DOMAIN media, j \in DOMAIN last.before.media :
         /\ media[i].id = last.before.media[j].id
         /\ media[i].originalPath = ""
         /\ last.before.media[j].originalPath # ""
    /\ \E i \in DOMAIN media, j \in DOMAIN last.before.media :
         /\ media[i].id = last.before.media[j].id
         /\ media[i].originalPath # ""
         /\ last.before.media[j].originalPath = ""
    /\ \E i \in DOMAIN media :
         /\ media[i].id \notin MediaIds(last.before.media)
         /\ media[i].originalPath = ""
         /\ media[i].filename \in Range(last.ret.nohave)

\* C8: rebuild(delete=True) appends one mediaDeleted row (id, time of the
\* run) for each media row whose filename no card refers to and deletes
\* exactly those rows; the other rows stay, no media row is left with
\* size = 0, and the mediaDeleted rows written before are still there,
\* unchanged and in place, after every operation.
PurgeTombstonesZeroRows ==
    /\ last.op # "none" =>
         /\ Len(mediaDeleted) >= Len(last.before.mediaDeleted)
         /\ SubSeq(mediaDeleted, 1, Len(last.before.mediaDeleted))
              = last.before.mediaDeleted
    /\ (last.op = "rebuild" /\ last.delete) =>
         LET old == last.before.media
             gone == {old[i].id : i \in {j \in DOMAIN old : old[j].filename \notin Referenced}}
             new == SubSeq(mediaDeleted, Len(last.before.mediaDeleted) + 1,
                           Len(mediaDeleted))
         IN  /\ {new[i].mediaId : i \in DOMAIN new} = gone
             /\ Len(new) = Cardinality(gone)
             /\ \A i \in DOMAIN new : new[i].deletedTime = last.at
             /\ MediaIds(media) \cap gone = {}
             /\ (MediaIds(old) \ gone) \subseteq MediaIds(media)
             /\ \A i \in DOMAIN media : media[i].size > 0

PurgeTombstonesZeroRowsWitness ==
    /\ last.op = "rebuild" /\ last.delete
    /\ last.before.mediaDeleted # <<>>
    /\ Len(mediaDeleted) > Len(last.before.mediaDeleted)
    /\ MediaIds(media) \cap MediaIds(last.before.media) # {}

\* C9: rebuild(delete=True) unlinks every file it classified as unused and
\* nothing else, and the unused list it returns is the classification made
\* before the unlinking: it names the files that are now gone.
PurgeUnlinksUnused ==
    (last.op = "rebuild" /\ last.delete) =>
        LET un == UnreferencedFiles(last.before.mdir, Referenced)
        IN  /\ mdir = SelectSeq(last.before.mdir, LAMBDA e : e.name \notin un)
            /\ last.ret.kind = "ok" =>
                 /\ Range(last.ret.unused) = un
                 /\ Range(last.ret.unused) \cap DirNames(mdir) = {}

PurgeUnlinksUnusedWitness ==
    /\ RebuildReturned(last) /\ last.delete
    /\ last.ret.unused # <<>>
    /\ \E f \in Referenced : IsFile(mdir, f)

----------------------------------------------------------------------------
(* Properties of copyToMedia *)

TwoCopiesSameContent ==
    /\ prev.op = "copy"
    /\ last.op = "copy"
    /\ prev.src # last.src
    /\ prev.src.data = last.src.data

\* C4 as stated: copyToMedia called twice in a row with two different files
\* of the same content returns the same filename both times and the media
\* directory gains exactly one file.
CopyTwiceOneFile ==
    TwoCopiesSameContent =>
        /\ last.ret = prev.ret
        /\ Len(mdir) = Len(prev.before.mdir) + 1

\* C4 amended: copyToMedia called twice in a row with two different files of
\* the same content returns the same filename both times and copies nothing
\* when a media row already holds that digest; when no row holds it, each
\* call copies its file under a name of its own, so the two returned names
\* differ and the media directory gains two files.
CopyTwiceDedupesByRow ==
    TwoCopiesSameContent =>
        IF \E i \in DOMAIN media : media[i].originalPath = checksum(last.src.data)
        THEN /\ last.ret = prev.ret
             /\ mdir = prev.before.mdir
        ELSE /\ last.ret # prev.ret
             /\ Len(mdir) = Len(prev.before.mdir) + 2
             /\ {prev.ret, last.ret} \subseteq DirNames(mdir) \ DirNames(prev.before.mdir)

CopyTwiceDedupesByRowWitness ==
    /\ TwoCopiesSameContent
    /\ \E i \in DOMAIN media : media[i].originalPath = checksum(last.src.data)
    /\ last.ret = prev.ret
    /\ last.ret \notin {Basename(prev.src.path), Basename(last.src.path)}

----------------------------------------------------------------------------
(* Properties of downloadMissing *)

\* the rows of the operation o whose file was absent and whose fetch fails
\* although a sum is stored
FatalRows(o) ==
    LET rows == o.before.media
    IN  {j \in DOMAIN rows :
           /\ ~Exists(o.before.mdir, rows[j].filename)
           /\ rows[j].filename \notin o.served
           /\ rows[j].originalPath # ""}

\* the filenames the operation o fetched
Fetched(o) ==
    LET rows == o.before.media
    IN  {rows[j].filename : j \in {k \in DOMAIN rows :
           /\ ~Exists(o.before.mdir, rows[k].filename)
           /\ rows[k].filename \in o.served}}

\* C5: the first failed fetch for a row with a stored sum ends
\* downloadMissing at once: it returns (False, mediaURL + filename) and no
\* row after that one is looked at, fetched or written.
FirstFatalFetchAborts ==
    (last.op = "download" /\ last.ret.kind # "none") =>
        LET rows == last.before.media
            F == FatalRows(last)
        IN  IF F = {} THEN last.ret.kind = "ok"
            ELSE LET k == Min(F)
                 IN  /\ last.ret.kind = "fail"
                     /\ last.ret.rpath = mediaURL \o rows[k].filename
                     /\ last.ret.seen = [i \in 1..k |-> rows[i].filename]
                     /\ \A j \in (k + 1)..Len(rows) :
                          /\ (mediaURL \o rows[j].filename) \notin Range(last.ret.tried)
                          /\ rows[j].filename \notin
                               DirNames(mdir) \ DirNames(last.before.mdir)
                          /\ rows[j].filename \notin cwdFiles \ last.before.cwdFiles

FirstFatalFetchAbortsWitness ==
    /\ last.op = "download" /\ last.ret.kind = "fail"
    /\ Len(last.ret.seen) < Len(last.before.media)
    /\ last.ret.missing > 0
    /\ \E j \in (Len(last.ret.seen) + 1)..Len(last.before.media) :
         /\ last.before.media[j].filename \in last.served
         /\ ~Exists(mdir, last.before.media[j].filename)

\* C6: when downloadMissing returns (True, ...), every file it fetched is in
\* the media directory under its filename, and a downloadMissing run right
\* after it does not fetch that file again.
FetchedFilesAreInMediaDir ==
    /\ (last.op = "download" /\ last.ret.kind = "ok") =>
         \A f \in Fetched(last) : f \in DirNames(mdir)
    /\ (prev.op = "download" /\ prev.ret.kind = "ok" /\ last.op = "download") =>
         \A f \in Fetched(prev) : (mediaURL \o f) \notin Range(last.ret.tried)

----------------------------------------------------------------------------
(* Properties of the string routines *)

\* the positions where the pattern reg matches s
Candidates(reg, s) == {i \in 1..Len(s) : RegMatch(reg, s, i).end > 0}

\* the starts of the non-overlapping matches: a candidate counts exactly
\* when no counted match before it reaches it
MatchStarts(reg, s) ==
    LET C == Candidates(reg, s)
    IN  CHOOSE S \in SUBSET C :
          \A i \in C :
            i \in S <=> \A j \in S : j < i => RegMatch(reg, s, j).end < i

\* the names captured at the match starts, from left to right
NamesInOrder(reg, s) ==
    LET S == MatchStarts(reg, s)
        At(k) == CHOOSE i \in S : Cardinality({j \in S : j < i}) = k - 1
    IN  [k \in 1..Cardinality(S) |-> RegMatch(reg, s, At(k)).name]

\* C17: mediaFiles returns the captured name of every non-overlapping match,
\* the [sound:...] matches first, from left to right, then the <img ...>
\* matches, from left to right, wherever the two kinds stand in the text; a
\* name matched k times is returned k times.
SoundNamesThenImgNames ==
    tpc = "found" => files = NamesInOrder("sound", txt) \o NamesInOrder("img", txt)

SoundNamesThenImgNamesWitness ==
    /\ tpc = "found"
    /\ ImgMatch(txt, 1).end > 0
    /\ SoundMatch(txt, ImgMatch(txt, 1).end + 1).end > 0
    /\ files = <<<<"x">>, <<"x">>, <<"x", ".", "z">>>>

\* C10: for every text, mediaFiles(stripMedia(text)) is empty: once both
\* patterns have removed their matches, neither pattern matches anywhere in
\* what is left.
StrippedTextHasNoReference == tpc = "refound" => files = <<>>

----------------------------------------------------------------------------
(* Frame and counting properties *)

\* C12: copyToMedia leaves the media table and the mediaDeleted table as
\* they were, whether it returns the name of a row that holds the digest or
\* copies the file under a new name.
CopyLeavesTablesAlone ==
    last.op = "copy" =>
        /\ media = last.before.media
        /\ mediaDeleted = last.before.mediaDeleted

CopyLeavesTablesAloneWitness ==
    /\ last.op = "copy"
    /\ prev.op = "copy"
    /\ prev.ret \in DirNames(last.before.mdir) \ DirNames(prev.before.mdir)
    /\ mdir = last.before.mdir
    /\ media # <<>>

\* the rows of the operation o whose file was absent when the run began
AbsentRows(o) ==
    {j \in DOMAIN o.before.media :
        ~Exists(o.before.mdir, o.before.media[j].filename)}

\* C13: when downloadMissing returns (True, grabbed, missing), grabbed is
\* the number of absent rows whose fetch succeeded, missing the number of
\* absent rows without a sum whose fetch failed, every row was looked at,
\* and grabbed + missing is the number of absent rows.
DownloadCountsAbsentRows ==
    (last.op = "download" /\ last.ret.kind = "ok") =>
        LET rows == last.before.media
            A == AbsentRows(last)
        IN  /\ last.ret.grabbed =
                 Cardinality({j \in A : rows[j].filename \in last.served})
            /\ last.ret.missing =
                 Cardinality({j \in A : /\ rows[j].filename \notin last.served
                                        /\ rows[j].originalPath = ""})
            /\ last.ret.grabbed + last.ret.missing = Cardinality(A)
            /\ last.ret.seen = [i \in DOMAIN rows |-> rows[i].filename]

DownloadCountsAbsentRowsWitness ==
    /\ last.op = "download" /\ last.ret.kind = "ok"
    /\ last.ret.missing > 0
    /\ last.ret.grabbed > 0
    /\ \E j \in AbsentRows(last), k \in AbsentRows(last) :
         /\ j < k
         /\ last.before.media[j].filename \notin last.served
         /\ last.before.media[k].filename \in last.served

\* C18: rebuild(delete=False) unlinks no file, deletes no media row and
\* writes no mediaDeleted row; the rows no card refers to any more stay,
\* with size = 0.
RebuildWithoutDeleteKeepsAll ==
    (last.op = "rebuild" /\ ~last.delete) =>
        /\ mdir = last.before.mdir
        /\ mediaDeleted = last.before.mediaDeleted
        /\ \A i \in DOMAIN last.before.media :
             /\ i \in DOMAIN media
             /\ media[i].id = last.before.media[i].id
             /\ media[i].filename = last.before.media[i].filename
             /\ media[i].filename \notin Referenced => media[i].size = 0

RebuildWithoutDeleteKeepsAllWitness ==
    /\ last.op = "rebuild" /\ ~last.delete
    /\ last.ret.unused # <<>>
    /\ \E i \in DOMAIN last.before.media :
         /\ last.before.media[i].size > 0
         /\ media[i].size = 0
         /\ IsFile(mdir, media[i].filename)

\* C14: the md5 pass of rebuild changes originalPath and created only in
\* the rows whose stored sum differs from the sum of the file on disk ("" when
\* there is no file); it leaves every other row, its created included, as
\* it found it, and changes no other column.
Md5PassTouchesStaleRowsOnly ==
    last.op = "rebuild" =>
        LET pre == last.prepass
        IN  IF last.ret.kind = "raise" THEN media = pre
            ELSE /\ DOMAIN media = DOMAIN pre
                 /\ \A i \in DOMAIN pre :
                      LET fresh == SumOrEmpty(mdir, pre[i].filename)
                      IN  IF pre[i].originalPath = fresh
                          THEN media[i] = pre[i]
                          ELSE media[i] = [pre[i] EXCEPT !.originalPath = fresh,
                                                         !.created = last.at]

Md5PassTouchesStaleRowsOnlyWitness ==
    /\ RebuildReturned(last)
    /\ \E i \in DOMAIN media :
         /\ media[i] = last.prepass[i]
         /\ media[i].originalPath # ""
         /\ media[i].created < last.at
    /\ \E j \in DOMAIN media :
         /\ media[j].originalPath # last.prepass[j].originalPath
         /\ last.prepass[j].created < last.at
         /\ media[j].created = last.at

----------------------------------------------------------------------------
(* Progress reporting *)

\* the positions of the calls of cs to the method ev
CallsTo(cs, ev) == {i \in DOMAIN cs : cs[i].ev = ev}

\* progress was begun once, before every update, and ended once, as the
\* last call of all
Balanced(cs) ==
    /\ Cardinality(CallsTo(cs, "startProgress")) = 1
    /\ Cardinality(CallsTo(cs, "finishProgress")) = 1
    /\ cs[Len(cs)].ev = "finishProgress"
    /\ \A i \in CallsTo(cs, "updateProgress") :
         \E j \in CallsTo(cs, "startProgress") : j < i

\* C19: downloadMissing without a mediaURL returns None without starting
\* the progress, calling for the media directory, writing a file or fetching
\* anything; every other return of downloadMissing, and every return of
\* rebuild, comes after exactly one startProgress and exactly one
\* finishProgress, the finishProgress being the last call.
ProgressIsBalanced ==
    /\ (last.op = "download" /\ last.ret.kind = "none") =>
         /\ last.calls = <<>>
         /\ last.ret.tried = <<>>
         /\ mdir = last.before.mdir
         /\ cwdFiles = last.before.cwdFiles
    /\ (last.op = "download" /\ last.ret.kind # "none") => Balanced(last.calls)
    /\ RebuildReturned(last) => Balanced(last.calls)
    /\ last.op = "download" => (last.ret.kind = "none" <=> mediaURL = <<>>)

ProgressIsBalancedWitness ==
    /\ last.op = "download" /\ last.ret.kind = "fail"
    /\ CallsTo(last.calls, "updateProgress") # {}
    /\ Len(last.ret.seen) < Len(last.before.media)
    /\ Balanced(last.calls)

----------------------------------------------------------------------------
(* Properties of uniquePath *)

\* the root without its " (n)" counter, and the counter (0 when there is none)
Prefix(root) ==
    IF CounterStart(root) = 0 THEN root
    ELSE SubSeq(root, 1, CounterStart(root) - 1)

Ctr(root) ==
    IF CounterStart(root) = 0 THEN 0
    ELSE IntOf(SubSeq(root, CounterStart(root) + 2, Len(root) - 1))

\* consecutive results of uniquePath for the same base
Pairs == {i \in 1..(Len(up.results) - 1) : TRUE}

SameNameWhenNotCreated ==
    \A i \in Pairs :
        ~up.created[i] => up.results[i + 1].name = up.results[i].name

\* C11 as stated: two calls of uniquePath without creating the returned path
\* give the same name; after the file is created at the first result the
\* next call gives a different name, not existing in the directory, whose
\* root carries a new " (1)" or the previous counter plus one.
SecondNameIsNextCounter ==
    /\ SameNameWhenNotCreated
    /\ \A i \in Pairs :
          up.created[i] =>
              LET r1 == up.results[i]
                  r2 == up.results[i + 1]
              IN  /\ r2.name # r1.name
                  /\ r2.name \notin r2.dir \cup DotNames
                  /\ CounterStart(r2.root) # 0
                  /\ Prefix(r2.root) = Prefix(r1.root)
                  /\ Ctr(r2.root) = Ctr(r1.root) + 1

\* C11 amended: two calls of uniquePath without creating the returned path
\* give the same name; after the file is created at the first result the
\* next call gives a different name, not existing in the directory, whose
\* root carries the first result's counter raised by some k >= 1 (a new
\* counter counting as raised from 0), every name with a counter in
\* between existing in the directory.
SecondNameIsNextFreeCounter ==
    /\ SameNameWhenNotCreated
    /\ \A i \in Pairs :
          up.created[i] =>
              LET r1 == up.results[i]
                  r2 == up.results[i + 1]
              IN  /\ r2.name # r1.name
                  /\ r2.name \notin r2.dir \cup DotNames
                  /\ CounterStart(r2.root) # 0
                  /\ Prefix(r2.root) = Prefix(r1.root)
                  /\ Ctr(r2.root) > Ctr(r1.root)
                  /\ \A m \in (Ctr(r1.root) + 1)..(Ctr(r2.root) - 1) :
                        Counted(Prefix(r1.root), m) \o r1.ext \in r2.dir

\* the second call had to skip a counter that was already taken
SecondNameIsNextFreeCounterWitness ==
    /\ Len(up.results) = 2
    /\ up.created[1]
    /\ Ctr(up.results[2].root) = Ctr(up.results[1].root) + 2
    /\ up.results[1].ext # <<>>

CountersGrow(tried) ==
    \A i \in 1..(Len(tried) - 1) : Ctr(tried[i + 1]) > Ctr(tried[i])

\* C16 as stated: every turn of the loop that finds the path existing moves
\* to a strictly larger counter, and the loop is left after at most
\* (number of directory entries + 1) turns.
LoopWithinEntriesPlusOne ==
    /\ CountersGrow(up.tried)
    /\ Len(up.tried) <= Len(mdir) + 1

\* C16 amended: every turn of the loop that finds the path existing moves
\* to a strictly larger counter, and the loop is left after at most
\* (number of directory entries + 1) turns, one more when the cleaned base
\* is "", "." or "..", which exist without being directory entries.
LoopWithinExistingPaths ==
    /\ CountersGrow(up.tried)
    /\ Len(up.tried) <= Len(mdir) + 1
           + (IF up.tried # <<>> /\ up.tried[1] \o up.ext \in DotNames
              THEN 1 ELSE 0)

\* a call that used every turn it may take: the cleaned base is empty and
\* the directory holds the first counted name
LoopWithinExistingPathsWitness ==
    /\ up.pc = "idle"
    /\ Len(up.results) = 1
    /\ ~up.created[1]
    /\ up.tried[1] \o up.ext = <<>>
    /\ Len(mdir) >= 1
    /\ Len(up.tried) = Len(mdir) + 2

----------------------------------------------------------------------------
(* Properties of rebuildMediaDir with a file removed under it *)

\* C15: when another process removes a file with a media row between the
\* directory listing and the hashing of that file (between the existence
\* check and the read included), in a run that would return without the
\* removal, rebuildMediaDir still returns, the row of the file has the
\* empty sum and the file is in the nohave list.
VanishedFileIsReportedMissing ==
    (last.op = "race" /\ last.alone = "ok") =>
        /\ last.ret.kind = "ok"
        /\ \E i \in DOMAIN media : /\ media[i].filename = last.gone
                                   /\ media[i].originalPath = ""
        /\ last.gone \in Range(last.ret.nohave)

====
